---- MODULE Spec2Model ----
(***************************************************************************)
(* Model of pipy/pip/_vendor/packaging/version.py: the version parser      *)
(* (Version / LegacyVersion), the comparison keys (_cmpkey,                *)
(* _legacy_cmpkey), the comparison operators of _BaseVersion and the read  *)
(* accessors.  Python strings are sequences of one-character strings;      *)
(* Python values that end up in a key are tagged records so that the       *)
(* dynamic typing of tuple comparison (including TypeError) is explicit.   *)
(***************************************************************************)
EXTENDS Integers, Sequences, FiniteSets, TLC

(***************************************************************************)
(* Characters and strings                                                  *)
(***************************************************************************)

\* The characters of the model, in increasing code-point order.
AsciiOrder ==
    <<" ", "!", "*", "+", "-", ".",
      "0", "1", "2", "3", "4", "5", "6", "7", "8", "9",
      "@",
      "A", "B", "C", "D", "E", "F", "G", "H", "I", "J", "K", "L", "M",
      "N", "O", "P", "Q", "R", "S", "T", "U", "V", "W", "X", "Y", "Z",
      "_",
      "a", "b", "c", "d", "e", "f", "g", "h", "i", "j", "k", "l", "m",
      "n", "o", "p", "q", "r", "s", "t", "u", "v", "w", "x", "y", "z">>

CharSet == {AsciiOrder[i] : i \in 1..Len(AsciiOrder)}

\* ord(c), up to a monotone renumbering
Ord == [ch \in CharSet |-> CHOOSE i \in 1..Len(AsciiOrder) : AsciiOrder[i] = ch]

DigitChars == <<"0", "1", "2", "3", "4", "5", "6", "7", "8", "9">>

DigitSet == {DigitChars[i] : i \in 1..10}

UpperChars ==
    <<"A", "B", "C", "D", "E", "F", "G", "H", "I", "J", "K", "L", "M",
      "N", "O", "P", "Q", "R", "S", "T", "U", "V", "W", "X", "Y", "Z">>

LowerChars ==
    <<"a", "b", "c", "d", "e", "f", "g", "h", "i", "j", "k", "l", "m",
      "n", "o", "p", "q", "r", "s", "t", "u", "v", "w", "x", "y", "z">>

UpperSet == {UpperChars[i] : i \in 1..26}

LowerSet == {LowerChars[i] : i \in 1..26}

\* [a-z0-9] under re.IGNORECASE
AlnumSet == DigitSet \cup LowerSet \cup UpperSet

\* [-_\.]
SepSet == {"-", "_", "."}

\* \s restricted to the characters of the model
SpaceSet == {" "}

LowerMap ==
    [ch \in CharSet |->
        IF ch \in UpperSet
        THEN LowerChars[CHOOSE i \in 1..26 : UpperChars[i] = ch]
        ELSE ch]

\* str.lower()
Lower(s) == [i \in 1..Len(s) |-> LowerMap[s[i]]]

DigitVal == [ch \in DigitSet |-> (CHOOSE i \in 1..10 : DigitChars[i] = ch) - 1]

\* int(s) for a string of decimal digits
RECURSIVE StrToInt(_)
StrToInt(s) ==
    IF Len(s) = 0 THEN 0
    ELSE 10 * StrToInt(SubSeq(s, 1, Len(s) - 1)) + DigitVal[s[Len(s)]]

\* str(n) for a non-negative integer
RECURSIVE IntToStr(_)
IntToStr(n) ==
    IF n < 10 THEN <<DigitChars[n + 1]>>
    ELSE Append(IntToStr(n \div 10), DigitChars[(n % 10) + 1])

\* str.isdigit(), for the characters of the model
IsDigitStr(s) == Len(s) > 0 /\ \A i \in 1..Len(s) : s[i] \in DigitSet

\* s1 < s2 on Python strings: lexicographic by code point
RECURSIVE StrLt(_, _)
StrLt(s1, s2) ==
    IF Len(s2) = 0 THEN FALSE
    ELSE IF Len(s1) = 0 THEN TRUE
    ELSE IF s1[1] = s2[1] THEN StrLt(Tail(s1), Tail(s2))
    ELSE Ord[s1[1]] < Ord[s2[1]]

\* the concatenation of a sequence of sequences
RECURSIVE Concat(_)
Concat(ss) ==
    IF Len(ss) = 0 THEN <<>> ELSE Head(ss) \o Concat(Tail(ss))

\* sep.join(strs)
RECURSIVE Join(_, _)
Join(sep, strs) ==
    IF Len(strs) = 0 THEN <<>>
    ELSE IF Len(strs) = 1 THEN strs[1]
    ELSE strs[1] \o sep \o Join(sep, Tail(strs))

\* index of the first occurrence of character ch in s, 0 when absent
FindChar(s, ch) ==
    IF \E i \in 1..Len(s) : s[i] = ch
    THEN CHOOSE i \in 1..Len(s) : s[i] = ch /\ \A j \in 1..(i - 1) : s[j] # ch
    ELSE 0

\* re.split of a separator class with no capture group: the pieces between
\* single separator characters
RECURSIVE SplitOn(_, _)
SplitOn(s, seps) ==
    IF \E i \in 1..Len(s) : s[i] \in seps
    THEN LET i == CHOOSE k \in 1..Len(s) :
                      s[k] \in seps /\ \A j \in 1..(k - 1) : s[j] \notin seps
         IN  <<SubSeq(s, 1, i - 1)>> \o SplitOn(SubSeq(s, i + 1, Len(s)), seps)
    ELSE <<s>>

(***************************************************************************)
(* Python values                                                           *)
(***************************************************************************)

PInt(n) == [t |-> "int", v |-> n]

PStr(s) == [t |-> "str", v |-> s]

PTuple(xs) == [t |-> "tuple", v |-> xs]

PNone == [t |-> "None", v |-> 0]

\* the maximal sentinel of the key fields
Infinity == [t |-> "Infinity", v |-> 0]

\* the minimal sentinel, -Infinity
NegativeInfinity == [t |-> "NegativeInfinity", v |-> 0]

IsSentinel(x) == x.t \in {"Infinity", "NegativeInfinity"}

\* x == y when x or y is a sentinel: a sentinel equals only itself
SentinelEq(x, y) == x.t = y.t

\* x op y when x or y is a sentinel, op one of "lt", "le", "gt", "ge":
\* Infinity is above every value and -Infinity below every value; the
\* sentinel on the left answers, else the one on the right
SentinelCmp(op, x, y) ==
    CASE x.t = "Infinity" -> op \in {"gt", "ge"}
      [] x.t = "NegativeInfinity" -> op \in {"lt", "le"}
      [] y.t = "Infinity" -> op \in {"lt", "le"}
      [] OTHER -> op \in {"gt", "ge"}

\* bool(x)
PyTruthy(x) ==
    CASE x.t = "None" -> FALSE
      [] x.t = "int" -> x.v # 0
      [] x.t = "str" -> Len(x.v) > 0
      [] x.t = "tuple" -> Len(x.v) > 0
      [] OTHER -> TRUE

\* x or y
PyOr(x, y) == IF PyTruthy(x) THEN x ELSE y

\* x == y
RECURSIVE PyEq(_, _)
PyEq(x, y) ==
    CASE IsSentinel(x) \/ IsSentinel(y) -> SentinelEq(x, y)
      [] x.t = "int" /\ y.t = "int" -> x.v = y.v
      [] x.t = "str" /\ y.t = "str" -> x.v = y.v
      [] x.t = "None" /\ y.t = "None" -> TRUE
      [] x.t = "tuple" /\ y.t = "tuple" ->
            /\ Len(x.v) = Len(y.v)
            /\ \A i \in 1..Len(x.v) : PyEq(x.v[i], y.v[i])
      [] OTHER -> FALSE

\* index of the first position where two tuples differ, 0 when one is a
\* prefix of the other
FirstDiff(xs, ys) ==
    LET n == IF Len(xs) < Len(ys) THEN Len(xs) ELSE Len(ys)
    IN  IF \E i \in 1..n : ~PyEq(xs[i], ys[i])
        THEN CHOOSE i \in 1..n :
                 ~PyEq(xs[i], ys[i]) /\ \A j \in 1..(i - 1) : PyEq(xs[j], ys[j])
        ELSE 0

Bool(b) == IF b THEN "True" ELSE "False"

\* x op y for op one of "lt", "le", "gt", "ge": "True", "False" or
\* "TypeError".  Tuples defer to the first position where they differ;
\* values of unlike types, and None, do not order.
RECURSIVE PyCmp(_, _, _)
PyCmp(op, x, y) ==
    CASE IsSentinel(x) \/ IsSentinel(y) -> Bool(SentinelCmp(op, x, y))
      [] x.t = "int" /\ y.t = "int" ->
            Bool(CASE op = "lt" -> x.v < y.v
                   [] op = "le" -> x.v <= y.v
                   [] op = "gt" -> x.v > y.v
                   [] OTHER -> x.v >= y.v)
      [] x.t = "str" /\ y.t = "str" ->
            Bool(CASE op = "lt" -> StrLt(x.v, y.v)
                   [] op = "le" -> ~StrLt(y.v, x.v)
                   [] op = "gt" -> StrLt(y.v, x.v)
                   [] OTHER -> ~StrLt(x.v, y.v))
      [] x.t = "tuple" /\ y.t = "tuple" ->
            LET i == FirstDiff(x.v, y.v)
            IN  IF i = 0
                THEN Bool(CASE op = "lt" -> Len(x.v) < Len(y.v)
                            [] op = "le" -> Len(x.v) <= Len(y.v)
                            [] op = "gt" -> Len(x.v) > Len(y.v)
                            [] OTHER -> Len(x.v) >= Len(y.v))
                ELSE PyCmp(op, x.v[i], y.v[i])
      [] OTHER -> "TypeError"

\* str(x) for the values that reach str.join in __str__
PyStr(x) ==
    CASE x.t = "int" -> IntToStr(x.v)
      [] x.t = "str" -> x.v
      [] x.t = "None" -> <<"N", "o", "n", "e">>
      [] OTHER -> <<>>

(***************************************************************************)
(* VERSION_PATTERN, as the backtracking matcher applies it                 *)
(*                                                                         *)
(* A match state is the position of the next unread character and the      *)
(* named groups captured so far.  Every piece of the pattern maps a match  *)
(* state to the sequence of match states it can leave behind, in the       *)
(* order in which the backtracking engine tries them (greedy quantifiers   *)
(* longest first, alternations left to right).  The engine's answer is     *)
(* the first state of the whole sequence that reaches the end of input.    *)
(***************************************************************************)

\* length of the longest run of characters of cls that starts at s[i]
RunLen(s, i, cls) ==
    CHOOSE n \in 0..(Len(s) - i + 1) :
        /\ \A k \in 0..(n - 1) : s[i + k] \in cls
        /\ (i + n > Len(s) \/ s[i + n] \notin cls)

\* cls+ at position i: the positions after the run, longest run first
RunEnds(s, i, cls) ==
    LET n == IF i > Len(s) THEN 0 ELSE RunLen(s, i, cls)
    IN  [k \in 1..n |-> i + n - k + 1]

\* cls+(?:seps cls+)* at position i: the positions after the match, in the
\* order greedy matching tries them
RECURSIVE DottedEnds(_, _, _, _)
DottedEnds(s, i, cls, seps) ==
    LET ends == RunEnds(s, i, cls)
    IN  Concat([k \in 1..Len(ends) |->
            (IF ends[k] <= Len(s) /\ s[ends[k]] \in seps
             THEN DottedEnds(s, ends[k] + 1, cls, seps)
             ELSE <<>>) \o <<ends[k]>>])

\* [-_\.]? at position i: with the separator first, then without
SepOpt(s, i) ==
    IF i <= Len(s) /\ s[i] \in SepSet THEN <<i + 1, i>> ELSE <<i>>

\* a literal at position i, ignoring case
MatchLit(s, i, lit) ==
    /\ i + Len(lit) - 1 <= Len(s)
    /\ \A k \in 1..Len(lit) : LowerMap[s[i + k - 1]] = lit[k]

\* (a|b|c|rc|alpha|beta|pre|preview), in the order of the alternation
PreLetters ==
    << <<"a">>, <<"b">>, <<"c">>, <<"r", "c">>,
       <<"a", "l", "p", "h", "a">>, <<"b", "e", "t", "a">>,
       <<"p", "r", "e">>, <<"p", "r", "e", "v", "i", "e", "w">> >>

\* post|rev|r
PostLetters == << <<"p", "o", "s", "t">>, <<"r", "e", "v">>, <<"r">> >>

\* dev
DevLetters == << <<"d", "e", "v">> >>

\* [-_\.]? (letters) [-_\.]? ([0-9]+)? at position i: the sequence of
\* [pos, l, n] it can leave, l the text of the letter group and n the text
\* of the number group or None
LetterGroup(s, i, lits) ==
    LET Number(l, i3) ==
            LET ends == RunEnds(s, i3, DigitSet)
            IN  [k \in 1..Len(ends) |->
                    [pos |-> ends[k], l |-> l,
                     n |-> PStr(SubSeq(s, i3, ends[k] - 1))]]
                \o <<[pos |-> i3, l |-> l, n |-> PNone]>>
        AfterLetter(l, i2) ==
            LET seps == SepOpt(s, i2)
            IN  Concat([k \in 1..Len(seps) |-> Number(l, seps[k])])
        Letter(i1) ==
            Concat([k \in 1..Len(lits) |->
                IF MatchLit(s, i1, lits[k])
                THEN AfterLetter(PStr(SubSeq(s, i1, i1 + Len(lits[k]) - 1)),
                                 i1 + Len(lits[k]))
                ELSE <<>>])
        starts == SepOpt(s, i)
    IN  Concat([k \in 1..Len(starts) |-> Letter(starts[k])])

\* the match state before anything is read: no group has participated
StartMatch ==
    [pos |-> 1, epoch |-> PNone, release |-> PNone,
     pre_l |-> PNone, pre_n |-> PNone,
     post_n1 |-> PNone, post_l |-> PNone, post_n2 |-> PNone,
     dev_l |-> PNone, dev_n |-> PNone, local |-> PNone]

\* ^\s*
LeadingSpace(s, m) ==
    LET n == IF m.pos > Len(s) THEN 0 ELSE RunLen(s, m.pos, SpaceSet)
    IN  [k \in 1..(n + 1) |-> [m EXCEPT !.pos = m.pos + n - k + 1]]

\* v?
OptV(s, m) ==
    IF m.pos <= Len(s) /\ LowerMap[s[m.pos]] = "v"
    THEN <<[m EXCEPT !.pos = m.pos + 1], m>>
    ELSE <<m>>

\* (?:(?P<epoch>[0-9]+)!)?
EpochGroup(s, m) ==
    LET ends == RunEnds(s, m.pos, DigitSet)
    IN  Concat([k \in 1..Len(ends) |->
            IF ends[k] <= Len(s) /\ s[ends[k]] = "!"
            THEN <<[m EXCEPT !.pos = ends[k] + 1,
                             !.epoch = PStr(SubSeq(s, m.pos, ends[k] - 1))]>>
            ELSE <<>>])
        \o <<m>>

\* (?P<release>[0-9]+(?:\.[0-9]+)*)
ReleaseGroup(s, m) ==
    LET ends == DottedEnds(s, m.pos, DigitSet, {"."})
    IN  [k \in 1..Len(ends) |->
            [m EXCEPT !.pos = ends[k],
                      !.release = PStr(SubSeq(s, m.pos, ends[k] - 1))]]

\* (?P<pre>[-_\.]?(?P<pre_l>...)[-_\.]?(?P<pre_n>[0-9]+)?)?
PreGroup(s, m) ==
    LET alts == LetterGroup(s, m.pos, PreLetters)
    IN  [k \in 1..Len(alts) |->
            [m EXCEPT !.pos = alts[k].pos, !.pre_l = alts[k].l,
                      !.pre_n = alts[k].n]]
        \o <<m>>

\* (?P<post>(?:-(?P<post_n1>[0-9]+))|(?:[-_\.]?(?P<post_l>post|rev|r)
\*          [-_\.]?(?P<post_n2>[0-9]+)?))?
PostGroup(s, m) ==
    LET ends == IF m.pos <= Len(s) /\ s[m.pos] = "-"
                THEN RunEnds(s, m.pos + 1, DigitSet) ELSE <<>>
        alts == LetterGroup(s, m.pos, PostLetters)
    IN  [k \in 1..Len(ends) |->
            [m EXCEPT !.pos = ends[k],
                      !.post_n1 = PStr(SubSeq(s, m.pos + 1, ends[k] - 1))]]
        \o
        [k \in 1..Len(alts) |->
            [m EXCEPT !.pos = alts[k].pos, !.post_l = alts[k].l,
                      !.post_n2 = alts[k].n]]
        \o <<m>>

\* (?P<dev>[-_\.]?(?P<dev_l>dev)[-_\.]?(?P<dev_n>[0-9]+)?)?
DevGroup(s, m) ==
    LET alts == LetterGroup(s, m.pos, DevLetters)
    IN  [k \in 1..Len(alts) |->
            [m EXCEPT !.pos = alts[k].pos, !.dev_l = alts[k].l,
                      !.dev_n = alts[k].n]]
        \o <<m>>

\* (?:\+(?P<local>[a-z0-9]+(?:[-_\.][a-z0-9]+)*))?
LocalGroup(s, m) ==
    LET ends == IF m.pos <= Len(s) /\ s[m.pos] = "+"
                THEN DottedEnds(s, m.pos + 1, AlnumSet, SepSet) ELSE <<>>
    IN  [k \in 1..Len(ends) |->
            [m EXCEPT !.pos = ends[k],
                      !.local = PStr(SubSeq(s, m.pos + 1, ends[k] - 1))]]
        \o <<m>>

\* \s*$
TrailingSpace(s, m) ==
    \A i \in m.pos..Len(s) : s[i] \in SpaceSet

\* the first element of a sequence as <<element>>, <<>> when it is empty
FirstOf(seq) == IF Len(seq) = 0 THEN <<>> ELSE <<seq[1]>>

\* One piece after another: every match state of ms continued by the piece,
\* in the order the engine tries them.
ThenOptV(s, ms) == Concat([k \in 1..Len(ms) |-> OptV(s, ms[k])])

ThenEpochGroup(s, ms) == Concat([k \in 1..Len(ms) |-> EpochGroup(s, ms[k])])

ThenReleaseGroup(s, ms) == Concat([k \in 1..Len(ms) |-> ReleaseGroup(s, ms[k])])

ThenPreGroup(s, ms) == Concat([k \in 1..Len(ms) |-> PreGroup(s, ms[k])])

ThenPostGroup(s, ms) == Concat([k \in 1..Len(ms) |-> PostGroup(s, ms[k])])

ThenDevGroup(s, ms) == Concat([k \in 1..Len(ms) |-> DevGroup(s, ms[k])])

ThenLocalGroup(s, ms) == Concat([k \in 1..Len(ms) |-> LocalGroup(s, ms[k])])

\* Version._regex.search(version): <<>> for no match, else <<the groups>>
RegexSearch(s) ==
    LET m1 == LeadingSpace(s, StartMatch)
        m2 == ThenOptV(s, m1)
        m3 == ThenEpochGroup(s, m2)
        m4 == ThenReleaseGroup(s, m3)
        m5 == ThenPreGroup(s, m4)
        m6 == ThenPostGroup(s, m5)
        m7 == ThenDevGroup(s, m6)
        m8 == ThenLocalGroup(s, m7)
        Full(m) == TrailingSpace(s, m)
    IN  FirstOf(SelectSeq(m8, Full))

(***************************************************************************)
(* Version: the structured value                                           *)
(***************************************************************************)

\* raise <exception>, as a value handed back to the caller
Raise(name) == [t |-> "raise", v |-> name]

\* the letter lowercased and nothing more
NormalizeLetterVersionLowerOnly(letter) == Lower(letter)

\* normalize_letter_version, nested in _parse_letter_version
NormalizeLetterVersion(letter) ==
    LET l == Lower(letter)
    IN  IF l = <<"a", "l", "p", "h", "a">> THEN <<"a">>
        ELSE IF l = <<"b", "e", "t", "a">> THEN <<"b">>
        ELSE IF l \in {<<"c">>, <<"p", "r", "e">>, <<"p", "r", "e", "v", "i", "e", "w">>} THEN <<"r", "c">>
        ELSE IF l \in {<<"r", "e", "v">>, <<"r">>} THEN <<"p", "o", "s", "t">>
        ELSE l

\* _parse_letter_version(letter, number)
ParseLetterVersion(letter, number) ==
    IF PyTruthy(letter)
    THEN PTuple(<<PStr(NormalizeLetterVersion(letter.v)),
                  PInt(IF number.t = "None" THEN 0 ELSE StrToInt(number.v))>>)
    ELSE IF PyTruthy(number)
    THEN PTuple(<<PStr(<<"p", "o", "s", "t">>), PInt(StrToInt(number.v))>>)
    ELSE PTuple(<<PNone, PInt(0)>>)

\* _parse_local_version(local)
ParseLocalVersion(local) ==
    IF local.t # "None"
    THEN LET parts == SplitOn(local.v, SepSet)
         IN  PTuple([k \in 1..Len(parts) |->
                 IF ~IsDigitStr(parts[k]) THEN PStr(Lower(parts[k]))
                 ELSE PInt(StrToInt(parts[k]))])
    ELSE PNone

\* tuple(int(i) for i in match.group("release").split("."))
ParseRelease(release) ==
    LET parts == SplitOn(release, {"."})
    IN  PTuple([k \in 1..Len(parts) |-> PInt(StrToInt(parts[k]))])

\* the release without any of its zero components
TrimReleaseEveryZero(release) ==
    LET NonZero(x) == x.v # 0 IN SelectSeq(release, NonZero)

\* reversed_release and the line after it: the release without its
\* trailing zero components
RECURSIVE TrimRelease(_)
TrimRelease(release) ==
    IF Len(release) > 0 /\ release[Len(release)].v = 0
    THEN TrimRelease(SubSeq(release, 1, Len(release) - 1))
    ELSE release

\* "-" in x: a substring test on a string, a membership test on a tuple
ContainsDash(x) ==
    CASE x.t = "str" -> \E i \in 1..Len(x.v) : x.v[i] = "-"
      [] x.t = "tuple" -> \E i \in 1..Len(x.v) : PyEq(x.v[i], PStr(<<"-">>))
      [] OTHER -> FALSE

\* the "-" branch of _cmpkey's pre, post and dev: x.split("-") made into
\* (letter, number); a tuple has no split
SplitField(x) ==
    IF x.t = "str"
    THEN LET parts == SplitOn(x.v, {"-"})
         IN  IF Len(parts) = 2 /\ ~IsDigitStr(parts[2])
             THEN Raise("ValueError")
             ELSE PTuple(<<PStr(parts[1]),
                           IF Len(parts) = 2 THEN PInt(StrToInt(parts[2]))
                           ELSE NegativeInfinity>>)
    ELSE Raise("AttributeError")

\* _cmpkey: the pre field
CmpkeyPre(pre, post, dev) ==
    IF pre.t = "None"
    THEN (IF PyTruthy(post) \/ PyTruthy(dev) THEN Infinity ELSE NegativeInfinity)
    ELSE IF PyEq(pre, PStr(<<"-", "I", "n", "f", "i", "n", "i", "t", "y">>)) \/ PyEq(pre, PStr(<<"+", "I", "n", "f", "i", "n", "i", "t", "y">>))
    THEN Raise("ValueError")
    ELSE IF ContainsDash(pre) THEN SplitField(pre)
    ELSE PTuple(<<pre, NegativeInfinity>>)

\* _cmpkey: the post field
CmpkeyPost(post) ==
    IF post.t = "None" THEN NegativeInfinity
    ELSE IF ContainsDash(post) THEN SplitField(post)
    ELSE PTuple(<<post, NegativeInfinity>>)

\* _cmpkey: the dev field
CmpkeyDev(dev) ==
    IF dev.t = "None" THEN Infinity
    ELSE IF PyEq(dev, PStr(<<"-", "I", "n", "f", "i", "n", "i", "t", "y">>)) THEN NegativeInfinity
    ELSE IF ContainsDash(dev) THEN SplitField(dev)
    ELSE PTuple(<<dev, NegativeInfinity>>)

\* the local field with numbers kept as if they were strings
CmpkeyLocalAllStrings(local) ==
    IF local.t = "None" THEN NegativeInfinity
    ELSE PTuple([k \in 1..Len(local.v) |->
             PTuple(<<NegativeInfinity, local.v[k]>>)])

\* _cmpkey: the local field
CmpkeyLocal(local) ==
    IF local.t = "None" THEN NegativeInfinity
    ELSE PTuple([k \in 1..Len(local.v) |->
             IF local.v[k].t = "int"
             THEN PTuple(<<local.v[k], PStr(<<>>)>>)
             ELSE PTuple(<<NegativeInfinity, local.v[k]>>)])

\* the key made of the fields, or the exception the first failing field
\* raised
KeyOrRaise(fields) ==
    IF \E i \in 1..Len(fields) : fields[i].t = "raise"
    THEN fields[CHOOSE i \in 1..Len(fields) :
                    fields[i].t = "raise"
                    /\ \A j \in 1..(i - 1) : fields[j].t # "raise"]
    ELSE PTuple(fields)

\* the key with the release ahead of the epoch
CmpkeyReleaseFirst(epoch, release, pre, post, dev, local) ==
    KeyOrRaise(<<PTuple(TrimRelease(release.v)),
                 epoch,
                 CmpkeyPre(pre, post, dev),
                 CmpkeyPost(post),
                 CmpkeyDev(dev),
                 CmpkeyLocal(local)>>)

\* _cmpkey(epoch, release, pre, post, dev, local)
Cmpkey(epoch, release, pre, post, dev, local) ==
    KeyOrRaise(<<epoch,
                 PTuple(TrimRelease(release.v)),
                 CmpkeyPre(pre, post, dev),
                 CmpkeyPost(post),
                 CmpkeyDev(dev),
                 CmpkeyLocal(local)>>)

\* "Invalid version: '{0}'".format(version)
InvalidVersionMessage(version) ==
    <<"I", "n", "v", "a", "l", "i", "d", " ", "v", "e", "r", "s", "i", "o", "n", ":", " ", "'">> \o version \o <<"'">>

\* Version.__init__: self._version, the parsed out pieces of the match
VersionPieces(match) ==
    [epoch |-> IF PyTruthy(match.epoch)
               THEN PInt(StrToInt(match.epoch.v)) ELSE PInt(0),
     release |-> ParseRelease(match.release.v),
     pre |-> ParseLetterVersion(match.pre_l, match.pre_n),
     post |-> ParseLetterVersion(match.post_l,
                                 PyOr(match.post_n1, match.post_n2)),
     dev |-> ParseLetterVersion(match.dev_l, match.dev_n),
     local |-> ParseLocalVersion(match.local)]

\* Version.__init__: the object with self._version and self._key set, or
\* the exception raised while the key was made
VersionWithKey(ver, key) ==
    IF key.t = "raise"
    THEN [kind |-> key.v, version |-> PNone, key |-> PNone]
    ELSE [kind |-> "Version", version |-> ver, key |-> key]

\* Version.__init__: self._key = _cmpkey(...) of the pieces
VersionOfPieces(ver) ==
    VersionWithKey(ver, Cmpkey(ver.epoch, ver.release, ver.pre, ver.post,
                               ver.dev, ver.local))

\* Version.__init__ after the search: InvalidVersion when nothing matched
VersionOfMatch(version, found) ==
    IF Len(found) = 0
    THEN [kind |-> "InvalidVersion",
          version |-> PStr(InvalidVersionMessage(version)),
          key |-> PNone]
    ELSE VersionOfPieces(VersionPieces(found[1]))

\* Version.__init__(version): the object, or the exception it raises
VersionInit(version) == VersionOfMatch(version, RegexSearch(version))

\* Version.__str__
VersionStr(self) ==
    LET ver == self.version
        Strs(xs) == [k \in 1..Len(xs) |-> PyStr(xs[k])]
    IN  (IF ver.epoch.v # 0 THEN IntToStr(ver.epoch.v) \o <<"!">> ELSE <<>>)
        \o Join(<<".">>, Strs(ver.release.v))
        \o (IF ver.pre.t # "None" THEN Concat(Strs(ver.pre.v)) ELSE <<>>)
        \o (IF ver.post.t # "None"
            THEN <<".", "p", "o", "s", "t">> \o PyStr(ver.post.v[2]) ELSE <<>>)
        \o (IF ver.dev.t # "None"
            THEN <<".", "d", "e", "v">> \o PyStr(ver.dev.v[2]) ELSE <<>>)
        \o (IF ver.local.t # "None"
            THEN <<"+">> \o Join(<<".">>, Strs(ver.local.v)) ELSE <<>>)

\* Version.public: str(self).split("+", 1)[0]
VersionPublic(self) ==
    LET str == VersionStr(self)
        i == FindChar(str, "+")
    IN  IF i = 0 THEN str ELSE SubSeq(str, 1, i - 1)

\* Version.base_version
VersionBaseVersion(self) ==
    LET ver == self.version
    IN  (IF ver.epoch.v # 0 THEN IntToStr(ver.epoch.v) \o <<"!">> ELSE <<>>)
        \o Join(<<".">>, [k \in 1..Len(ver.release.v) |-> PyStr(ver.release.v[k])])

\* Version.local: the text after the first "+", or None
VersionLocal(self) ==
    LET str == VersionStr(self)
        i == FindChar(str, "+")
    IN  IF i # 0 THEN PStr(SubSeq(str, i + 1, Len(str))) ELSE PNone

\* Version.is_prerelease
VersionIsPrerelease(self) ==
    PyTruthy(PyOr(self.version.dev, self.version.pre))

\* Version.is_postrelease
VersionIsPostrelease(self) == PyTruthy(self.version.post)

(***************************************************************************)
(* LegacyVersion: the fallback value                                       *)
(***************************************************************************)

\* _legacy_version_component_re.split(s): the text between components and
\* the components (\d+ | [a-z]+ | \. | -), alternating; cur is the text
\* read since the last component
RECURSIVE LegacySplit(_, _, _)
LegacySplit(s, i, cur) ==
    IF i > Len(s) THEN <<cur>>
    ELSE IF s[i] \in DigitSet
    THEN LET n == RunLen(s, i, DigitSet)
         IN  <<cur, SubSeq(s, i, i + n - 1)>> \o LegacySplit(s, i + n, <<>>)
    ELSE IF s[i] \in LowerSet
    THEN LET n == RunLen(s, i, LowerSet)
         IN  <<cur, SubSeq(s, i, i + n - 1)>> \o LegacySplit(s, i + n, <<>>)
    ELSE IF s[i] \in {".", "-"}
    THEN <<cur, <<s[i]>>>> \o LegacySplit(s, i + 1, <<>>)
    ELSE LegacySplit(s, i + 1, Append(cur, s[i]))

\* _replace_legacy_component, over _legacy_version_replacement_map
ReplaceLegacyComponent(component) ==
    CASE component = <<"p", "r", "e">> -> <<"c">>
      [] component = <<"p", "r", "e", "v", "i", "e", "w">> -> <<"c">>
      [] component = <<"-">> -> <<"f", "i", "n", "a", "l", "-">>
      [] component = <<"r", "c">> -> <<"c">>
      [] component = <<"d", "e", "v">> -> <<"@">>
      [] OTHER -> component

\* the width numeric parts are padded to
ZfillWidth == 8

\* str.zfill(width) of a string that starts with a digit
RECURSIVE Zfill(_, _)
Zfill(s, width) ==
    IF Len(s) >= width THEN s ELSE Zfill(<<"0">> \o s, width)

\* _parse_version_parts(s): the parts it yields, in order
ParseVersionParts(s) ==
    LET raw == LegacySplit(s, 1, <<>>)
        Part(x) ==
            LET part == ReplaceLegacyComponent(x)
            IN  IF Len(part) = 0 \/ part = <<".">> THEN <<>>
                ELSE IF part[1] \in DigitSet THEN <<Zfill(part, ZfillWidth)>>
                ELSE <<<<"*">> \o part>>
    IN  Concat([k \in 1..Len(raw) |-> Part(raw[k])]) \o <<<<"*", "f", "i", "n", "a", "l">>>>

\* while parts and parts[-1] == x: parts.pop()
RECURSIVE PopWhile(_, _)
PopWhile(parts, x) ==
    IF Len(parts) > 0 /\ parts[Len(parts)] = x
    THEN PopWhile(SubSeq(parts, 1, Len(parts) - 1), x)
    ELSE parts

\* extract_parts(part), nested in _legacy_cmpkey: the new value of parts
ExtractParts(parts, part) ==
    LET p1 == IF StrLt(part, <<"*", "f", "i", "n", "a", "l">>) THEN PopWhile(parts, <<"*", "f", "i", "n", "a", "l", "-">>)
              ELSE parts
        p2 == PopWhile(p1, Zfill(<<"0">>, ZfillWidth))
    IN  Append(p2, part)

\* the epoch of every legacy key
LegacyEpoch == -1

\* the loop of _legacy_cmpkey over the parts still to come
RECURSIVE LegacyLoop(_, _)
LegacyLoop(parts, todo) ==
    IF Len(todo) = 0 THEN parts
    ELSE LegacyLoop(ExtractParts(parts, Head(todo)), Tail(todo))

\* the legacy key with the epoch of a structured version
LegacyCmpkeyEpochZero(version) ==
    PTuple(<<PInt(0),
             PTuple([k \in 1..Len(LegacyLoop(<<>>, ParseVersionParts(Lower(version)))) |->
                 PStr(LegacyLoop(<<>>, ParseVersionParts(Lower(version)))[k])])>>)

\* _legacy_cmpkey(version)
LegacyCmpkey(version) ==
    LET parts == LegacyLoop(<<>>, ParseVersionParts(Lower(version)))
    IN  PTuple(<<PInt(LegacyEpoch),
                 PTuple([k \in 1..Len(parts) |-> PStr(parts[k])])>>)

\* LegacyVersion.__init__(version)
LegacyVersionInit(version) ==
    [kind |-> "LegacyVersion", version |-> PStr(version),
     key |-> LegacyCmpkey(version)]

(***************************************************************************)
(* parse and the operations shared by both kinds                           *)
(***************************************************************************)

\* parse: except InvalidVersion: return LegacyVersion(version)
ParseCatch(version, made) ==
    IF made.kind = "InvalidVersion" THEN LegacyVersionInit(version)
    ELSE made

\* parse without its except clause
ParseNoCatch(version) == VersionInit(version)

\* parse(version)
Parse(version) == ParseCatch(version, VersionInit(version))

\* isinstance(x, _BaseVersion)
IsBaseVersion(x) == x.kind \in {"Version", "LegacyVersion"}

\* _BaseVersion._compare(other, method), method one of the six operators
Compare(self, other, method) ==
    IF ~IsBaseVersion(other) THEN "NotImplemented"
    ELSE CASE method = "eq" -> Bool(PyEq(self.key, other.key))
           [] method = "ne" -> Bool(~PyEq(self.key, other.key))
           [] OTHER -> PyCmp(method, self.key, other.key)

\* hash(x) of a key, as a structural fold: equal values hash equal
RECURSIVE PyHash(_)
PyHash(x) ==
    CASE x.t = "int" -> x.v % 65536
      [] x.t = "str" ->
            IF Len(x.v) = 0 THEN 0
            ELSE (31 * PyHash(PStr(SubSeq(x.v, 1, Len(x.v) - 1)))
                  + Ord[x.v[Len(x.v)]]) % 65536
      [] x.t = "tuple" ->
            IF Len(x.v) = 0 THEN 1
            ELSE (33 * PyHash(PTuple(SubSeq(x.v, 1, Len(x.v) - 1)))
                  + PyHash(x.v[Len(x.v)])) % 65536
      [] x.t = "None" -> 2
      [] x.t = "Infinity" -> 3
      [] OTHER -> 4

\* _BaseVersion.__hash__
Hash(self) == PyHash(self.key)

\* str(x) of either kind
Str(self) ==
    IF self.kind = "Version" THEN VersionStr(self) ELSE self.version.v

\* x.public of either kind
Public(self) ==
    IF self.kind = "Version" THEN VersionPublic(self) ELSE self.version.v

\* x.base_version of either kind
BaseVersion(self) ==
    IF self.kind = "Version" THEN VersionBaseVersion(self) ELSE self.version.v

\* x.local of either kind
Local(self) ==
    IF self.kind = "Version" THEN VersionLocal(self) ELSE PNone

\* x.is_prerelease of either kind
IsPrerelease(self) ==
    IF self.kind = "Version" THEN VersionIsPrerelease(self) ELSE FALSE

\* x.is_postrelease of either kind
IsPostrelease(self) ==
    IF self.kind = "Version" THEN VersionIsPostrelease(self) ELSE FALSE

(***************************************************************************)
(* The inputs                                                              *)
(***************************************************************************)

\* trailing ".0" components added to a release: 0..MaxTrail
MaxTrail == 3

\* numbers of the pre, post and dev segments: 1..MaxNum
MaxNum == 2

\* epochs of the structured inputs; epoch 0 is written without "N!"
Epochs == {0, 1}

EpochText(e) == IF e = 0 THEN <<>> ELSE IntToStr(e) \o <<"!">>

\* release segments before any trailing zeros are added
ReleaseHeads == {<<0>>, <<1>>, <<2>>, <<1, 1>>, <<1, 0, 1>>}

ReleaseText(head, zeros) ==
    Join(<<".">>, [k \in 1..(Len(head) + zeros) |->
                      IF k <= Len(head) THEN IntToStr(head[k]) ELSE <<"0">>])

\* epoch and release only
ReleaseInputs ==
    {EpochText(e) \o ReleaseText(h, z) :
        e \in Epochs, h \in ReleaseHeads, z \in 0..MaxTrail}

PreSuffixes ==
    {tag \o IntToStr(n) : tag \in {<<"a">>, <<"b">>, <<"r", "c">>}, n \in 1..MaxNum}
    \cup {<<"a", "l", "p", "h", "a", "1">>, <<"b", "e", "t", "a", "1">>, <<"c", "1">>, <<"p", "r", "e", "1">>, <<"p", "r", "e", "v", "i", "e", "w", "1">>, <<"a">>, <<"a", "0">>, <<".", "a", ".", "1">>,
          <<"A", "1">>, <<"R", "C", "1">>}

PostSuffixes ==
    {<<".", "p", "o", "s", "t">> \o IntToStr(n) : n \in 1..MaxNum}
    \cup {<<"-", "1">>, <<".", "r", "e", "v", "1">>, <<".", "r", "1">>, <<"p", "o", "s", "t", "1">>, <<".", "p", "o", "s", "t">>, <<".", "p", "o", "s", "t", "0">>}

DevSuffixes ==
    {<<".", "d", "e", "v">> \o IntToStr(n) : n \in 1..MaxNum}
    \cup {<<".", "d", "e", "v">>, <<".", "d", "e", "v", "0">>, <<"d", "e", "v", "1">>}

LocalSuffixes ==
    {<<"+", "a", "b", "c">>, <<"+", "a", "b", "c", ".", "1">>, <<"+", "a", "b", "d">>, <<"+", "1">>, <<"+", "l", "o", "c", "a", "l", ".", "1">>, <<"+", "A", "B", "C">>, <<"+", "a", "b", "c", "-", "0", "1">>}

MixedSuffixes ==
    {<<"a", "1", ".", "p", "o", "s", "t", "1">>, <<"a", "1", ".", "d", "e", "v", "1">>, <<".", "p", "o", "s", "t", "1", ".", "d", "e", "v", "1">>, <<"a", "1", ".", "p", "o", "s", "t", "1", ".", "d", "e", "v", "1">>,
     <<"a", "1", ".", "p", "o", "s", "t", "1", ".", "d", "e", "v", "1", "+", "a", "b", "c">>, <<"a", "1", "+", "a", "b", "c">>, <<".", "p", "o", "s", "t", "1", "+", "a", "b", "c">>, <<".", "d", "e", "v", "1", "+", "a", "b", "c", ".", "1">>, <<"a", "-", "1">>}

Suffixes ==
    {<<>>} \cup PreSuffixes \cup PostSuffixes \cup DevSuffixes
    \cup LocalSuffixes \cup MixedSuffixes

\* one release with every suffix, under every epoch
SuffixInputs ==
    {EpochText(e) \o <<"1", ".", "0">> \o suf : e \in Epochs, suf \in Suffixes}

\* structured inputs with a "v" prefix or surrounding whitespace
DecoratedInputs == {<<"v", "1", ".", "0">>, <<"V", "1", ".", "0", "a", "1">>, <<" ", "1", ".", "0", " ">>, <<" ", "v", "1", "!", "1", ".", "0", ".", "p", "o", "s", "t", "1", " ">>}

\* inputs outside the structured grammar
LegacyInputs ==
    {<<"n", "o", "t", "-", "a", "-", "v", "e", "r", "s", "i", "o", "n", "-", "1", ".", "0", "-", "f", "i", "n", "a", "l">>, <<"f", "o", "o">>, <<>>, <<"1", ".", "0", "-", "f", "o", "o">>, <<"1", ".", "0", ".", "0", "-", "f", "o", "o">>,
     <<"1", ".", "0", ".", "1", "-", "f", "o", "o">>, <<"1", ".", "1", "-", "f", "o", "o">>, <<"1", ".", "0", "x">>, <<"1", ".", ".", "0">>, <<"1", ".", "0", "+">>, <<"1", ".", "0", "a", "1", "b", "2">>,
     <<"1", ".", "0", "N", "o", "n", "e", "0", ".", "p", "o", "s", "t", "0", ".", "d", "e", "v", "0">>, <<"1", ".", "0", "-", "r", "c", "1", "-", "f", "i", "n", "a", "l">>, <<"0", ".", "0", "-", "p", "r", "e">>, <<"!", "1", ".", "0">>, <<"1", ".", "0", " ", "a">>}

\* a release with trailing zeros, with a suffix
TrailedInputs == {<<"1", ".", "0", ".", "0", "a", "1">>, <<"1", ".", "0", ".", "0", ".", "p", "o", "s", "t", "1">>, <<"1", ".", "0", ".", "0", ".", "d", "e", "v", "1">>, <<"1", ".", "0", ".", "0", "+", "a", "b", "c">>}

Corpus ==
    ReleaseInputs \cup SuffixInputs \cup TrailedInputs \cup DecoratedInputs
    \cup LegacyInputs

\* the inputs the third operand of a comparison is drawn from
ThirdCorpus == {<<"1", ".", "0">>, <<"1", ".", "0", "a", "1">>, <<"f", "o", "o">>}

(***************************************************************************)
(* The state machine: a caller that parses up to three strings, inspects   *)
(* the first value and compares the values                                 *)
(***************************************************************************)

VARIABLES
    args,    \* the strings handed to parse so far, in order
    objs,    \* the values parse returned for them
    groups,  \* what VERSION_PATTERN captures in each of them (a record of
             \* the caller's: <<>> where the pattern does not match)
    made,    \* <<Version(args[1])>> once the strict constructor was called
    view,    \* <<the accessors of objs[1]>> once they were read
    again,   \* <<parse(str(objs[1]))>> once the text was parsed again
    cmp,     \* <<objs[1] op objs[2] for every operator>> once compared
    cmp3     \* <<the comparisons with objs[3]>> once compared

vars == <<args, objs, groups, made, view, again, cmp, cmp3>>

Init ==
    /\ args = <<>>
    /\ objs = <<>>
    /\ groups = <<>>
    /\ made = <<>>
    /\ view = <<>>
    /\ again = <<>>
    /\ cmp = <<>>
    /\ cmp3 = <<>>

\* the six comparison operators of _BaseVersion and the two hashes
Comparison(self, other) ==
    [lt |-> Compare(self, other, "lt"),
     le |-> Compare(self, other, "le"),
     eq |-> Compare(self, other, "eq"),
     ne |-> Compare(self, other, "ne"),
     gt |-> Compare(self, other, "gt"),
     ge |-> Compare(self, other, "ge"),
     hash_self |-> Hash(self),
     hash_other |-> Hash(other)]

\* the read accessors of a value
Accessors(self) ==
    [str |-> Str(self),
     public |-> Public(self),
     base_version |-> BaseVersion(self),
     local |-> Local(self),
     is_prerelease |-> IsPrerelease(self),
     is_postrelease |-> IsPostrelease(self)]

\* x = parse(s): the first value
ParseFirst(s) ==
    /\ Len(args) = 0
    /\ args' = <<s>>
    /\ objs' = <<Parse(s)>>
    /\ groups' = <<RegexSearch(s)>>
    /\ UNCHANGED <<made, view, again, cmp, cmp3>>

\* Version(s) on the string of the first value
Construct ==
    /\ Len(args) = 1
    /\ made = <<>>
    /\ made' = <<VersionInit(args[1])>>
    /\ UNCHANGED <<args, objs, groups, view, again, cmp, cmp3>>

\* str(x), x.public, x.base_version, x.local, x.is_prerelease,
\* x.is_postrelease of the first value
Inspect ==
    /\ Len(args) = 1
    /\ view = <<>>
    /\ view' = <<Accessors(objs[1])>>
    /\ UNCHANGED <<args, objs, groups, made, again, cmp, cmp3>>

\* parse(str(x)) of the first value
Reparse ==
    /\ Len(args) = 1
    /\ again = <<>>
    /\ again' = <<Parse(Str(objs[1]))>>
    /\ UNCHANGED <<args, objs, groups, made, view, cmp, cmp3>>

\* y = parse(s): the second value
ParseSecond(s) ==
    /\ Len(args) = 1
    /\ made = <<>> /\ view = <<>> /\ again = <<>>
    /\ args' = Append(args, s)
    /\ objs' = Append(objs, Parse(s))
    /\ groups' = Append(groups, RegexSearch(s))
    /\ UNCHANGED <<made, view, again, cmp, cmp3>>

\* x op y for the six operators, and the hashes of x and y
CompareTwo ==
    /\ Len(args) = 2
    /\ cmp = <<>>
    /\ cmp' = <<Comparison(objs[1], objs[2])>>
    /\ UNCHANGED <<args, objs, groups, made, view, again, cmp3>>

\* z = parse(s): the third value
ParseThird(s) ==
    /\ Len(args) = 2
    /\ cmp # <<>>
    /\ args' = Append(args, s)
    /\ objs' = Append(objs, Parse(s))
    /\ groups' = Append(groups, RegexSearch(s))
    /\ UNCHANGED <<made, view, again, cmp, cmp3>>

\* y op z and x op z
CompareThree ==
    /\ Len(args) = 3
    /\ cmp3 = <<>>
    /\ cmp3' = <<[yz |-> Comparison(objs[2], objs[3]),
                  xz |-> Comparison(objs[1], objs[3])]>>
    /\ UNCHANGED <<args, objs, groups, made, view, again, cmp>>

Next ==
    \/ \E s \in Corpus : ParseFirst(s)
    \/ Construct
    \/ Inspect
    \/ Reparse
    \/ \E s \in Corpus : ParseSecond(s)
    \/ CompareTwo
    \/ \E s \in ThirdCorpus : ParseThird(s)
    \/ CompareThree

Spec == Init /\ [][Next]_vars

(***************************************************************************)
(* What the inputs say, read off the input text                            *)
(***************************************************************************)

\* text is cls+ (seps cls+)*
IsDotted(text, cls, seps) ==
    /\ Len(text) > 0
    /\ text[1] \in cls /\ text[Len(text)] \in cls
    /\ \A i \in 1..Len(text) : text[i] \in cls \cup seps
    /\ \A i \in 1..(Len(text) - 1) : ~(text[i] \in seps /\ text[i + 1] \in seps)

\* text is [-_.]? tag [-_.]? digits*, for one of the tags, in any case
IsLetterSegment(text, tags) ==
    \E a \in 0..1, k \in 1..Len(tags), b \in 0..1 :
        /\ Len(text) >= a + Len(tags[k]) + b
        /\ a = 1 => text[1] \in SepSet
        /\ \A i \in 1..Len(tags[k]) : LowerMap[text[a + i]] = tags[k][i]
        /\ b = 1 => text[a + Len(tags[k]) + 1] \in SepSet
        /\ \A i \in (a + Len(tags[k]) + b + 1)..Len(text) : text[i] \in DigitSet

IsEpochSegment(x) ==
    /\ Len(x) >= 2 /\ x[Len(x)] = "!"
    /\ \A i \in 1..(Len(x) - 1) : x[i] \in DigitSet

IsReleaseSegment(x) == IsDotted(x, DigitSet, {"."})

IsPreSegment(x) == IsLetterSegment(x, PreLetters)

IsPostSegment(x) ==
    \/ (Len(x) >= 2 /\ x[1] = "-" /\ \A i \in 2..Len(x) : x[i] \in DigitSet)
    \/ IsLetterSegment(x, PostLetters)

IsDevSegment(x) == IsLetterSegment(x, DevLetters)

IsLocalSegment(x) ==
    Len(x) >= 2 /\ x[1] = "+" /\ IsDotted(Tail(x), AlnumSet, SepSet)

IsPrefixV(x) == Len(x) = 1 /\ LowerMap[x[1]] = "v"

\* text is the named segment of the grammar
IsSegment(name, x) ==
    CASE name = "v" -> IsPrefixV(x)
      [] name = "epoch" -> IsEpochSegment(x)
      [] name = "release" -> IsReleaseSegment(x)
      [] name = "pre" -> IsPreSegment(x)
      [] name = "post" -> IsPostSegment(x)
      [] name = "dev" -> IsDevSegment(x)
      [] name = "local" -> IsLocalSegment(x)

\* the positions the named segment can end at when it may start at any of
\* from
After(name, s, from) ==
    {j \in 1..(Len(s) + 1) :
        \E i \in from : i < j /\ IsSegment(name, SubSeq(s, i, j - 1))}

\* the same for a segment that may be left out
AfterOptional(name, s, from) == from \cup After(name, s, from)

\* the positions the text can be read up to: leading spaces, then ...
LeadingEnds(s) == {i \in 1..(Len(s) + 1) : \A j \in 1..(i - 1) : s[j] = " "}

\* ... "v"? epoch? release ...
ReleaseEnds(s) ==
    After("release", s,
        AfterOptional("epoch", s,
            AfterOptional("v", s, LeadingEnds(s))))

\* ... pre? post? dev? local?
VersionEnds(s) ==
    AfterOptional("local", s,
        AfterOptional("dev", s,
            AfterOptional("post", s,
                AfterOptional("pre", s, ReleaseEnds(s)))))

\* s is a sentence of the structured grammar
\*   version := epoch? release pre? post? dev? local?
\* with an optional leading "v" and surrounding spaces
InGrammar(s) ==
    \E i \in VersionEnds(s) : \A j \in i..Len(s) : s[j] = " "

\* the named groups of the i-th input, a structured one
Groups(i) == groups[i][1]

HasPre(g) == g.pre_l.t # "None"

HasPost(g) == g.post_l.t # "None" \/ g.post_n1.t # "None"

HasDev(g) == g.dev_l.t # "None"

HasLocal(g) == g.local.t # "None"

\* the same epoch and the same release text
SameRelease(g1, g2) == PyEq(g1.epoch, g2.epoch) /\ PyEq(g1.release, g2.release)

\* the same pre, post, dev and local text
SameSuffix(g1, g2) ==
    /\ PyEq(g1.pre_l, g2.pre_l) /\ PyEq(g1.pre_n, g2.pre_n)
    /\ PyEq(g1.post_l, g2.post_l) /\ PyEq(g1.post_n1, g2.post_n1)
    /\ PyEq(g1.post_n2, g2.post_n2)
    /\ PyEq(g1.dev_l, g2.dev_l) /\ PyEq(g1.dev_n, g2.dev_n)
    /\ PyEq(g1.local, g2.local)

\* the number a group holds, 0 when the group is absent
NumberOf(group) == IF group.t = "None" THEN 0 ELSE StrToInt(group.v)

\* the release as a sequence of numbers
ReleaseNumbers(g) ==
    LET parts == SplitOn(g.release.v, {"."})
    IN  [k \in 1..Len(parts) |-> StrToInt(parts[k])]

\* the canonical spelling of a pre, post or dev tag
CanonTag(tag) ==
    LET l == Lower(tag)
    IN  CASE l \in {<<"a">>, <<"a", "l", "p", "h", "a">>} -> <<"a">>
          [] l \in {<<"b">>, <<"b", "e", "t", "a">>} -> <<"b">>
          [] l \in {<<"c">>, <<"r", "c">>, <<"p", "r", "e">>, <<"p", "r", "e", "v", "i", "e", "w">>} -> <<"r", "c">>
          [] l \in {<<"p", "o", "s", "t">>, <<"r", "e", "v">>, <<"r">>} -> <<"p", "o", "s", "t">>
          [] OTHER -> l

\* a < b < rc
TagRank(tag) ==
    CASE CanonTag(tag) = <<"a">> -> 1
      [] CanonTag(tag) = <<"b">> -> 2
      [] OTHER -> 3

\* the elements of a local segment: numbers and lowercased strings
LocalElements(g) ==
    LET parts == SplitOn(g.local.v, SepSet)
    IN  [k \in 1..Len(parts) |->
            IF IsDigitStr(parts[k])
            THEN [num |-> TRUE, n |-> StrToInt(parts[k]), s |-> <<>>]
            ELSE [num |-> FALSE, n |-> 0, s |-> Lower(parts[k])]]

\* the order of two sequences of local elements: element by element, a
\* number above every string, a strict prefix below its extensions
RECURSIVE LocalElementsLess(_, _)
LocalElementsLess(x, y) ==
    IF Len(y) = 0 THEN FALSE
    ELSE IF Len(x) = 0 THEN TRUE
    ELSE IF x[1] = y[1] THEN LocalElementsLess(Tail(x), Tail(y))
    ELSE IF x[1].num /\ y[1].num THEN x[1].n < y[1].n
    ELSE IF ~x[1].num /\ ~y[1].num THEN StrLt(x[1].s, y[1].s)
    ELSE ~x[1].num

\* the order of the local segments of two inputs, an absent one first
LocalLess(g1, g2) ==
    IF ~HasLocal(g2) THEN FALSE
    ELSE IF ~HasLocal(g1) THEN TRUE
    ELSE LocalElementsLess(LocalElements(g1), LocalElements(g2))

\* the text of an input before its local segment
PublicText(s) ==
    IF FindChar(s, "+") = 0 THEN s ELSE SubSeq(s, 1, FindChar(s, "+") - 1)

\* one sequence of numbers extends the other by zeros only
TrailingZerosApart(r1, r2) ==
    LET n == IF Len(r1) < Len(r2) THEN Len(r1) ELSE Len(r2)
    IN  /\ \A i \in 1..n : r1[i] = r2[i]
        /\ \A i \in (n + 1)..Len(r1) : r1[i] = 0
        /\ \A i \in (n + 1)..Len(r2) : r2[i] = 0

\* epoch and release, as base_version is to show them
ExpectedBase(g) ==
    (IF NumberOf(g.epoch) # 0 THEN IntToStr(NumberOf(g.epoch)) \o <<"!">>
     ELSE <<>>)
    \o Join(<<".">>, [k \in 1..Len(ReleaseNumbers(g)) |->
                         IntToStr(ReleaseNumbers(g)[k])])

\* the canonical text of the segments the input has, local excluded
ExpectedPublic(g) ==
    ExpectedBase(g)
    \o (IF HasPre(g)
        THEN CanonTag(g.pre_l.v) \o IntToStr(NumberOf(g.pre_n)) ELSE <<>>)
    \o (IF HasPost(g)
        THEN <<".", "p", "o", "s", "t">> \o IntToStr(NumberOf(PyOr(g.post_n1, g.post_n2)))
        ELSE <<>>)
    \o (IF HasDev(g) THEN <<".", "d", "e", "v">> \o IntToStr(NumberOf(g.dev_n)) ELSE <<>>)

\* the normalized local text, None when the input has none
ExpectedLocal(g) ==
    IF ~HasLocal(g) THEN PNone
    ELSE PStr(Join(<<".">>, [k \in 1..Len(LocalElements(g)) |->
                                IF LocalElements(g)[k].num
                                THEN IntToStr(LocalElements(g)[k].n)
                                ELSE LocalElements(g)[k].s]))

Booleans == {"True", "False"}

\* of x < y, x == y, x > y every one is a boolean and exactly one is true
Trichotomy(r) ==
    /\ r.lt \in Booleans /\ r.eq \in Booleans /\ r.gt \in Booleans
    /\ Cardinality({op \in {"lt", "eq", "gt"} : r[op] = "True"}) = 1

\* both compared values are structured
BothStructured == objs[1].kind = "Version" /\ objs[2].kind = "Version"

\* a pair of values has been compared and no third one parsed
Compared == Len(args) = 2 /\ cmp # <<>>

OnlyPre(g) == HasPre(g) /\ ~HasPost(g) /\ ~HasDev(g) /\ ~HasLocal(g)

OnlyPost(g) == ~HasPre(g) /\ HasPost(g) /\ ~HasDev(g) /\ ~HasLocal(g)

OnlyDev(g) == ~HasPre(g) /\ ~HasPost(g) /\ HasDev(g) /\ ~HasLocal(g)

Final(g) == ~HasPre(g) /\ ~HasPost(g) /\ ~HasDev(g) /\ ~HasLocal(g)

\* a pre-release written a, b or rc with its number
PlainPre(g) ==
    /\ OnlyPre(g)
    /\ g.pre_l.v \in {<<"a">>, <<"b">>, <<"r", "c">>}
    /\ g.pre_n.t # "None"

\* (tag, number) of g1 is below (tag, number) of g2
PreLess(g1, g2) ==
    \/ TagRank(g1.pre_l.v) < TagRank(g2.pre_l.v)
    \/ /\ TagRank(g1.pre_l.v) = TagRank(g2.pre_l.v)
       /\ NumberOf(g1.pre_n) < NumberOf(g2.pre_n)

\* s occurs in text
Contains(text, s) ==
    \E i \in 0..(Len(text) - Len(s)) : SubSeq(text, i + 1, i + Len(s)) = s

(***************************************************************************)
(* The claims                                                              *)
(***************************************************************************)

\* C1: the comparison operators on parsed values form a total order: every
\* comparison x < y, x == y, x > y returns a boolean without raising,
\* exactly one of the three is true, and x < y with y < z implies x < z.
C1_TotalOrder ==
    /\ cmp # <<>> => Trichotomy(cmp[1])
    /\ cmp3 # <<>> =>
          /\ Trichotomy(cmp3[1].yz)
          /\ Trichotomy(cmp3[1].xz)
          /\ (cmp[1].lt = "True" /\ cmp3[1].yz.lt = "True")
                => cmp3[1].xz.lt = "True"

PreReleaseOrder(g1, g2, r) ==
    SameRelease(g1, g2) =>
        /\ (PlainPre(g1) /\ PlainPre(g2) /\ PreLess(g1, g2)) => r.lt = "True"
        /\ (PlainPre(g1) /\ Final(g2)) => r.lt = "True"

\* C2: for a fixed epoch and release R with no post, dev or local segment,
\* pre-releases order by tag a < b < rc, then by number, and every
\* pre-release is strictly less than the final release R.
C2_PreReleaseOrder ==
    (Compared /\ BothStructured) =>
        PreReleaseOrder(Groups(1), Groups(2), cmp[1])

DevPostOrder(g1, g2, r) ==
    SameRelease(g1, g2) =>
        /\ (OnlyDev(g1) /\ OnlyPre(g2)) => r.lt = "True"
        /\ (OnlyPre(g1) /\ Final(g2)) => r.lt = "True"
        /\ (Final(g1) /\ OnlyPost(g2)) => r.lt = "True"

\* C3: for a fixed epoch and release R, a dev release precedes every
\* pre-release of R, the final release follows its pre-releases, and a
\* post release follows the final release.
C3_DevPostOrder ==
    (Compared /\ BothStructured) =>
        DevPostOrder(Groups(1), Groups(2), cmp[1])

\* C4: for every string s of the structured grammar, str(parse(s)) is again
\* in the structured grammar and parse(str(parse(s))) has the same
\* comparison key as parse(s).
C4_RoundTrip ==
    (again # <<>> /\ objs[1].kind = "Version") =>
        /\ InGrammar(Str(objs[1]))
        /\ again[1].kind = "Version"
        /\ PyEq(again[1].key, objs[1].key)

AccessorsAsExpected(g, v) ==
    /\ v.public = ExpectedPublic(g)
    /\ PyEq(v.local, ExpectedLocal(g))
    /\ v.base_version = ExpectedBase(g)

\* C5: for every structured version, public is the canonical text of the
\* segments the input has with the local segment stripped, local is the
\* normalized local text or None, and base_version is the epoch (when not
\* zero) and the release only.
C5_Accessors ==
    (view # <<>> /\ objs[1].kind = "Version") =>
        AccessorsAsExpected(Groups(1), view[1])

\* a legacy value keeps its string and has a key that compares
UsableLegacy(s, x) ==
    /\ x.version = PStr(s)
    /\ x.key.t = "tuple" /\ Len(x.key.v) = 2
    /\ x.key.v[1] = PInt(LegacyEpoch)
    /\ x.key.v[2].t = "tuple"
    /\ \A i \in 1..Len(x.key.v[2].v) :
          x.key.v[2].v[i].t = "str" /\ Len(x.key.v[2].v[i].v) > 0
    /\ Compare(x, x, "eq") = "True" /\ Compare(x, x, "lt") = "False"

ParseRoutes(s, x, grammatical) ==
    /\ x.kind = (IF grammatical THEN "Version" ELSE "LegacyVersion")
    /\ x.kind = "LegacyVersion" => UsableLegacy(s, x)

ConstructorRaises(s, m, grammatical) ==
    /\ m.kind = (IF grammatical THEN "Version" ELSE "InvalidVersion")
    /\ m.kind = "InvalidVersion" => Contains(m.version.v, s)

\* C6: parse never raises: it returns a Version when the whole string is in
\* the structured grammar and a LegacyVersion with a usable key otherwise;
\* Version(s) raises InvalidVersion, carrying s, exactly when s is not in
\* the grammar.
C6_ParseNeverFails ==
    /\ \A i \in 1..Len(objs) : objs[i].kind \in {"Version", "LegacyVersion"}
    /\ Len(args) = 1 => ParseRoutes(args[1], objs[1], InGrammar(args[1]))
    /\ made # <<>> => ConstructorRaises(args[1], made[1], InGrammar(args[1]))

C6_Witness ==
    /\ Len(args) = 1
    /\ args[1] = <<"n", "o", "t", "-", "a", "-", "v", "e", "r", "s", "i", "o", "n", "-", "1", ".", "0", "-", "f", "i", "n", "a", "l">>
    /\ objs[1].kind = "LegacyVersion"
    /\ made # <<>> /\ made[1].kind = "InvalidVersion"

LocalOrder(g1, g2, r) ==
    /\ r.lt = Bool(LocalLess(g1, g2))
    /\ r.gt = Bool(LocalLess(g2, g1))
    /\ r.eq = Bool(~LocalLess(g1, g2) /\ ~LocalLess(g2, g1))

\* C7: for a fixed public version P, parse(P) < parse(P + "+L") for every
\* local segment L; local segments compare element by element, a strict
\* prefix below its extensions, and a number above every string.
C7_LocalOrder ==
    (Compared /\ BothStructured /\ PublicText(args[1]) = PublicText(args[2])) =>
        LocalOrder(Groups(1), Groups(2), cmp[1])

C7_Witness ==
    /\ Compared
    /\ args = <<<<"1", ".", "0", "+", "1">>, <<"1", ".", "0", "+", "a", "b", "c">>>>
    /\ cmp[1].gt = "True"

ReleaseTrimming(g1, g2, r) ==
    /\ (/\ PyEq(g1.epoch, g2.epoch)
        /\ SameSuffix(g1, g2)
        /\ TrailingZerosApart(ReleaseNumbers(g1), ReleaseNumbers(g2)))
          => (r.eq = "True" /\ r.ne = "False" /\ r.hash_self = r.hash_other)
    /\ ~TrailingZerosApart(ReleaseNumbers(g1), ReleaseNumbers(g2))
          => (r.eq = "False" /\ r.ne = "True")

\* C8: two structured versions that differ only by trailing zero components
\* of the release are equal and hash equal; releases that differ in a
\* component that is not a trailing zero are unequal.
C8_ReleaseTrimming ==
    (Compared /\ BothStructured) =>
        ReleaseTrimming(Groups(1), Groups(2), cmp[1])

C8_Witness ==
    /\ Compared
    /\ args = <<<<"1", ".", "0">>, <<"1", ".", "0", ".", "0", ".", "0">>>>
    /\ cmp[1].eq = "True"
    /\ cmp[1].hash_self = cmp[1].hash_other

\* x is below y under every operator
StrictlyBelow(r) ==
    /\ r.lt = "True" /\ r.le = "True" /\ r.ne = "True"
    /\ r.eq = "False" /\ r.gt = "False" /\ r.ge = "False"

\* x is above y under every operator
StrictlyAbove(r) ==
    /\ r.gt = "True" /\ r.ge = "True" /\ r.ne = "True"
    /\ r.eq = "False" /\ r.lt = "False" /\ r.le = "False"

\* C9: every LegacyVersion parse returns is strictly less than, and never
\* equal to, every Version parse returns: the legacy key's epoch is -1 and
\* structured epochs are >= 0.
C9_LegacyBelowStructured ==
    /\ \A i \in 1..Len(objs) :
          /\ objs[i].kind = "LegacyVersion" => objs[i].key.v[1] = PInt(-1)
          /\ objs[i].kind = "Version" => objs[i].key.v[1].v >= 0
    /\ Compared =>
          /\ (objs[1].kind = "LegacyVersion" /\ objs[2].kind = "Version")
                => StrictlyBelow(cmp[1])
          /\ (objs[1].kind = "Version" /\ objs[2].kind = "LegacyVersion")
                => StrictlyAbove(cmp[1])

C9_Witness ==
    /\ Compared
    /\ args = <<<<"n", "o", "t", "-", "a", "-", "v", "e", "r", "s", "i", "o", "n", "-", "1", ".", "0", "-", "f", "i", "n", "a", "l">>, <<"0">>>>
    /\ objs[1].kind = "LegacyVersion" /\ objs[2].kind = "Version"
    /\ cmp[1].lt = "True"

EpochOrder(g1, g2, r) ==
    /\ NumberOf(g1.epoch) > NumberOf(g2.epoch) => StrictlyAbove(r)
    /\ NumberOf(g1.epoch) < NumberOf(g2.epoch) => StrictlyBelow(r)

\* C10: of two structured versions the one with the greater epoch is the
\* greater, whatever their release, pre, post, dev and local segments; a
\* version written without an epoch has epoch 0.
C10_EpochDominance ==
    /\ (Len(args) = 1 /\ objs[1].kind = "Version")
          => objs[1].version.epoch = PInt(NumberOf(Groups(1).epoch))
    /\ (Compared /\ BothStructured)
          => EpochOrder(Groups(1), Groups(2), cmp[1])

C10_Witness ==
    /\ Compared
    /\ args = <<<<"1", "!", "1", ".", "0">>, <<"2", ".", "0">>>>
    /\ objs[2].version.epoch = PInt(0)
    /\ cmp[1].gt = "True"

\* the marker of a segment as the input spells it: <<>> when the segment is
\* absent, else <<canonical tag, number>> with 0 for a number left out
PreMarker(g) ==
    IF HasPre(g) THEN <<CanonTag(g.pre_l.v), NumberOf(g.pre_n)>> ELSE <<>>

\* the bare "-N" form has no tag and stands for post
PostMarker(g) ==
    IF ~HasPost(g) THEN <<>>
    ELSE <<IF g.post_l.t = "None" THEN <<"p", "o", "s", "t">>
           ELSE CanonTag(g.post_l.v),
           NumberOf(PyOr(g.post_n1, g.post_n2))>>

DevMarker(g) ==
    IF HasDev(g) THEN <<CanonTag(g.dev_l.v), NumberOf(g.dev_n)>> ELSE <<>>

\* two inputs that differ at most in how their markers are spelled
SameMarkers(g1, g2) ==
    /\ SameRelease(g1, g2)
    /\ PyEq(g1.local, g2.local)
    /\ PreMarker(g1) = PreMarker(g2)
    /\ PostMarker(g1) = PostMarker(g2)
    /\ DevMarker(g1) = DevMarker(g2)

\* C11: structured versions that differ only in the spelling of a marker
\* are equal: alpha = a, beta = b, c = pre = preview = rc, rev = r = post, a
\* marker without a number is the marker with number 0, and the bare "-N"
\* form is ".postN".
C11_TagNormalization ==
    (Compared /\ BothStructured /\ SameMarkers(Groups(1), Groups(2))) =>
        /\ cmp[1].eq = "True" /\ cmp[1].ne = "False"
        /\ cmp[1].hash_self = cmp[1].hash_other

C11_Witness ==
    /\ Compared
    /\ args = <<<<"1", ".", "0", "a", "l", "p", "h", "a", "1">>,
                <<"1", ".", "0", "a", "1">>>>
    /\ cmp[1].eq = "True"

\* the pre field of the key of the i-th value
PreField(i) == objs[i].key.v[3]

\* the input has no pre-release, post or dev segment
NoPreFinal(g) == ~HasPre(g) /\ ~HasPost(g) /\ ~HasDev(g)

\* the input has no pre-release segment but a post or dev segment
NoPreMarked(g) == ~HasPre(g) /\ (HasPost(g) \/ HasDev(g))

\* the pre field p1 of input g1 against the pre field p2 of input g2
PreFieldOrder(g1, p1, g2, p2) ==
    /\ (NoPreFinal(g1) /\ HasPre(g2)) =>
          PyCmp("gt", p1, p2) = "True" /\ PyCmp("lt", p2, p1) = "True"
    /\ (NoPreMarked(g1) /\ HasPre(g2)) =>
          PyCmp("lt", p1, p2) = "True" /\ PyCmp("gt", p2, p1) = "True"
    /\ (HasPre(g1) /\ HasPre(g2)) =>
          PyCmp("lt", p1, p2) = Bool(PreLess(g1, g2))

\* C12: without a pre-release segment the pre field of the structured key
\* is above the pre field of every version that has a pre-release when
\* neither post nor dev is present, and below it when post or dev is
\* present; with a pre-release the field orders by (tag, number).
C12_PreField ==
    (Compared /\ BothStructured) =>
        PreFieldOrder(Groups(1), PreField(1), Groups(2), PreField(2))

\* both compared values are legacy
BothLegacy == objs[1].kind = "LegacyVersion" /\ objs[2].kind = "LegacyVersion"

\* s2 is s1 with a ".0" component put in after the digit s1[k]
ZeroInserted(s1, s2, k) ==
    /\ s1[k] \in DigitSet
    /\ s2 = SubSeq(s1, 1, k) \o <<".", "0">> \o SubSeq(s1, k + 1, Len(s1))

\* rest goes on with something that is not numeric, or is the end: a zero
\* put in before it trails its numeric series
EndsSeries(rest) == Len(rest) = 0 \/ rest[1] \notin DigitSet \cup {"."}

\* rest goes on with a further numeric component that is not zero
ContinuesSeries(rest) ==
    /\ Len(rest) >= 2 /\ rest[1] = "." /\ rest[2] \in DigitSet
    /\ \E j \in 2..Len(rest) :
          /\ rest[j] \in DigitSet \ {"0"}
          /\ \A i \in 2..j : rest[i] \in DigitSet

\* the comparison r of legacy strings s1 and s2 that differ by one ".0"
LegacyZeroTrimming(s1, s2, r) ==
    \A k \in 1..Len(s1) :
        ZeroInserted(s1, s2, k) =>
            LET rest == SubSeq(s1, k + 1, Len(s1))
            IN  /\ EndsSeries(rest) =>
                      r.eq = "True" /\ r.hash_self = r.hash_other
                /\ ContinuesSeries(rest) => r.eq = "False"

\* C13: the legacy key drops an all-zero numeric token only when it trails
\* its series of numeric parts: legacy strings that differ only by a
\* trailing ".0" component have equal keys, and legacy strings that differ
\* by a zero component followed by a further numeric component ("1.0.1-foo"
\* against "1.1-foo") have different keys.
C13_LegacyZeroTrimming ==
    (Compared /\ BothLegacy) => LegacyZeroTrimming(args[1], args[2], cmp[1])

\* the flags v of a value made from the input with groups g
FlagsOfSegments(g, v) ==
    /\ v.is_prerelease = (HasPre(g) \/ HasDev(g))
    /\ v.is_postrelease = HasPost(g)

\* C14: for every structured version is_prerelease is true exactly when
\* the input has a pre-release or dev segment and is_postrelease exactly
\* when it has a post segment; for every legacy version both are false.
C14_Flags ==
    view # <<>> =>
        /\ objs[1].kind = "Version" => FlagsOfSegments(Groups(1), view[1])
        /\ objs[1].kind = "LegacyVersion" =>
              ~view[1].is_prerelease /\ ~view[1].is_postrelease

====
